---- MODULE Spec2Model ----
(***************************************************************************)
(* Book Finder (src/src/App.jsx): the query builder (esc, buildUrl), the   *)
(* search controller hook useOpenLibrarySearch (params, status, data,      *)
(* error, abortRef, the debounced cancellable fetch) and the operations    *)
(* the App component drives it with (onSearch, Prev, Next).                *)
(*                                                                         *)
(* JavaScript values are records [k, n, s]: k is the type ("undef", "num", *)
(* "str"), n the number, s the string.  Objects (params, a partial given   *)
(* to update, a parsed JSON body) are functions from the keys they own.    *)
(* null-or-value state (data, error, abortRef.current) is a sequence of    *)
(* length 0 (null) or 1.                                                   *)
(***************************************************************************)
EXTENDS Integers, Sequences, FiniteSets, TLC

(***************************************************************************)
(* JavaScript values                                                       *)
(***************************************************************************)
Undef == [k |-> "undef", n |-> 0, s |-> ""]
Str(s) == [k |-> "str", n |-> 0, s |-> s]
Num(n) == [k |-> "num", n |-> n, s |-> ""]

\* p.key: undefined when the object does not own the key
Get(p, key) == IF key \in DOMAIN p THEN p[key] ELSE Undef

\* ToBoolean: undefined, 0 and "" are falsy
Truthy(v) == CASE v.k = "undef" -> FALSE
               [] v.k = "num" -> v.n # 0
               [] v.k = "str" -> v.s # ""

\* a || b
OrElse(a, b) == IF Truthy(a) THEN a ELSE b

\* a ?? b
Nullish(a, b) == IF a.k = "undef" THEN b ELSE a

\* { ...a, ...b }
Spread(a, b) == [key \in DOMAIN a \cup DOMAIN b |-> IF key \in DOMAIN b THEN b[key] ELSE a[key]]

Null == <<>>
Some(x) == <<x>>

(***************************************************************************)
(* Strings                                                                 *)
(***************************************************************************)
CharAt(s, i) == SubSeq(s, i, i)

Digit(d) == CharAt("0123456789", d + 1)

RECURSIVE NatStr(_)
NatStr(n) == IF n < 10 THEN Digit(n) ELSE NatStr(n \div 10) \o Digit(n % 10)

\* String(v) and template interpolation `${v}`
ToStr(v) == CASE v.k = "undef" -> "undefined"
              [] v.k = "num" -> IF v.n < 0 THEN "-" \o NatStr(0 - v.n) ELSE NatStr(v.n)
              [] v.k = "str" -> v.s

RECURSIVE DigitsVal(_)
DigitsVal(s) ==
  IF s = "" THEN 0
  ELSE 10 * DigitsVal(SubSeq(s, 1, Len(s) - 1))
       + (CHOOSE d \in 0..9 : Digit(d) = CharAt(s, Len(s)))

\* Number(s) on the value of an <input type="number" min="0">: a digit string
ToNumber(s) == DigitsVal(s)

WhiteSpace == {" "}

RECURSIVE TrimStart(_)
TrimStart(s) == IF s # "" /\ CharAt(s, 1) \in WhiteSpace THEN TrimStart(SubSeq(s, 2, Len(s))) ELSE s

RECURSIVE TrimEnd(_)
TrimEnd(s) ==
  IF s # "" /\ CharAt(s, Len(s)) \in WhiteSpace THEN TrimEnd(SubSeq(s, 1, Len(s) - 1)) ELSE s

\* String.prototype.trim
Trim(s) == TrimEnd(TrimStart(s))

\* t.includes(c) for a one-character c
Includes(s, c) == \E i \in 1..Len(s) : CharAt(s, i) = c

\* t.replaceAll('"', '\\"')
EscQuote(c) == IF c = "\"" THEN "\\\"" ELSE c
RECURSIVE ReplaceAllQuotes(_)
ReplaceAllQuotes(s) ==
  IF s = "" THEN "" ELSE EscQuote(CharAt(s, 1)) \o ReplaceAllQuotes(SubSeq(s, 2, Len(s)))

AlphaNum == {CharAt("abcdefghijklmnopqrstuvwxyz0123456789ABCDEFGHIJKLMNOPQRSTUVWXYZ", i) : i \in 1..62}

\* %XX of the ASCII characters that occur outside AlphaNum
PctCode(c) == CASE c = " " -> "%20" [] c = "\"" -> "%22" [] c = "%" -> "%25"
                [] c = "&" -> "%26" [] c = "+" -> "%2B" [] c = "," -> "%2C"
                [] c = ":" -> "%3A" [] c = "=" -> "%3D" [] c = "[" -> "%5B"
                [] c = "\\" -> "%5C" [] c = "]" -> "%5D" [] c = "*" -> "%2A"
                [] c = "-" -> "%2D" [] c = "." -> "%2E" [] c = "_" -> "%5F"
                [] c = "/" -> "%2F" [] c = "?" -> "%3F" [] c = "!" -> "%21"

\* encodeURIComponent escapes everything but A-Z a-z 0-9 - _ . ! ~ * ' ( )
UriUnreserved == AlphaNum \cup {"-", "_", ".", "!", "~", "*", "'", "(", ")"}
UriEncChar(c) == IF c \in UriUnreserved THEN c ELSE PctCode(c)
RECURSIVE encodeURIComponent(_)
encodeURIComponent(s) ==
  IF s = "" THEN "" ELSE UriEncChar(CharAt(s, 1)) \o encodeURIComponent(SubSeq(s, 2, Len(s)))

\* URLSearchParams.toString(): application/x-www-form-urlencoded keeps
\* A-Z a-z 0-9 * - . _ and writes a space as +
FormUnreserved == AlphaNum \cup {"*", "-", ".", "_"}
FormEncChar(c) == IF c = " " THEN "+" ELSE IF c \in FormUnreserved THEN c ELSE PctCode(c)
RECURSIVE FormEncode(_)
FormEncode(s) ==
  IF s = "" THEN "" ELSE FormEncChar(CharAt(s, 1)) \o FormEncode(SubSeq(s, 2, Len(s)))

\* parts.join(sep)
RECURSIVE Join(_, _)
Join(parts, sep) ==
  IF parts = <<>> THEN ""
  ELSE IF Len(parts) = 1 THEN parts[1]
  ELSE parts[1] \o sep \o Join(Tail(parts), sep)

\* URLSearchParams.toString() of a list of <<name, value>> pairs
RECURSIVE Serialize(_)
Serialize(pairs) ==
  IF pairs = <<>> THEN ""
  ELSE FormEncode(pairs[1][1]) \o "=" \o FormEncode(pairs[1][2])
       \o (IF Len(pairs) = 1 THEN "" ELSE "&" \o Serialize(Tail(pairs)))

(***************************************************************************)
(* Query builder                                                           *)
(***************************************************************************)
BASE == "https://openlibrary.org/search.json"
DefaultLimit == 24

\* esc(v) with the quotes of t left as they are
escKeepQuotes(v) ==
  LET t == Trim(ToStr(OrElse(v, Str(""))))
  IN IF Includes(t, " ") THEN "\"" \o t \o "\"" ELSE encodeURIComponent(t)

\* esc(v); v || "" turns a falsy v into the empty string
esc(v) ==
  LET t == Trim(ToStr(OrElse(v, Str(""))))
  IN IF Includes(t, " ") THEN "\"" \o ReplaceAllQuotes(t) \o "\"" ELSE encodeURIComponent(t)

FieldList == <<"key", "title", "author_name", "first_publish_year", "subject", "cover_i", "ia">>

\* the parts array of buildUrl, in push order
QueryParts(p) ==
  (IF Truthy(Get(p, "title")) THEN <<"title:" \o esc(Get(p, "title"))>> ELSE <<>>)
  \o (IF Truthy(Get(p, "author")) THEN <<"author:" \o esc(Get(p, "author"))>> ELSE <<>>)
  \o (IF Truthy(Get(p, "subject")) THEN <<"subject:" \o esc(Get(p, "subject"))>> ELSE <<>>)
  \o (IF Truthy(Get(p, "language"))
      THEN <<"language:" \o encodeURIComponent(ToStr(Get(p, "language")))>> ELSE <<>>)
  \o (IF Truthy(Get(p, "yearStart")) \/ Truthy(Get(p, "yearEnd"))
      THEN <<"first_publish_year:[" \o ToStr(OrElse(Get(p, "yearStart"), Str("*")))
             \o " TO " \o ToStr(OrElse(Get(p, "yearEnd"), Str("*"))) \o "]">>
      ELSE <<>>)
  \o (IF Truthy(Get(p, "q")) THEN <<ToStr(Get(p, "q"))>> ELSE <<>>)

\* the URLSearchParams entries buildUrl sets from p, in set order
UrlPairs(p) ==
  (IF QueryParts(p) # <<>> THEN <<<<"q", Join(QueryParts(p), " ")>>>> ELSE <<>>)
  \o << <<"page", ToStr(OrElse(Get(p, "page"), Num(1)))>>,
        <<"limit", ToStr(OrElse(Get(p, "limit"), Num(DefaultLimit)))>> >>
  \o (IF Truthy(Get(p, "sort")) /\ Get(p, "sort") # Str("relevance")
      THEN << <<"sort", ToStr(Get(p, "sort"))>> >> ELSE <<>>)

\* the entry set last: params.set("fields", [...].join(","))
FieldsEntry == Serialize(<< <<"fields", Join(FieldList, ",")>> >>)

\* BASE + "?" + params.toString()
buildUrl(p) == BASE \o "?" \o Serialize(UrlPairs(p)) \o "&" \o FieldsEntry

(***************************************************************************)
(* Bounds and input sets                                                   *)
(***************************************************************************)
\* requests (AbortControllers) created in one run
MaxReq == 3
\* pages that update({ page: n }) is called with: 0..MaxPage
MaxPage == 2

\* the filter forms that are submitted (state of App's filters at onSearch)
NoFilters == [q |-> "", title |-> "", author |-> "", subject |-> "", language |-> "",
              yearStart |-> "", yearEnd |-> "", sort |-> "relevance"]
FilterSets ==
  { NoFilters,
    [NoFilters EXCEPT !.q = "a"],
    [NoFilters EXCEPT !.title = "the hobbit "],
    [NoFilters EXCEPT !.q = "a", !.sort = "new", !.yearStart = "1990"] }


\* HTTP status codes of a response
HttpCodes == {200, 500}
\* e.message of a rejected fetch (a TypeError)
NetworkMessages == {"Failed to fetch", ""}
\* parsed bodies: null, or an object owning some of numFound and docs
Bodies ==
  { Null,
    Some([numFound |-> 0, docs |-> <<>>]),
    Some([numFound |-> 1, docs |-> <<"/works/OL1W">>]),
    Some([numFound |-> 30, docs |-> <<"/works/OL1W", "/works/OL2W">>]),
    Some([numFound |-> 3]) }

(***************************************************************************)
(* Search controller: useOpenLibrarySearch                                 *)
(***************************************************************************)
\* useState initial value of params, with App's initial argument
InitialParams ==
  Spread([limit |-> Num(DefaultLimit), page |-> Num(1), sort |-> Str("relevance")],
         [limit |-> Num(DefaultLimit), sort |-> Str("relevance")])

\* hasQuery of the effect
HasQuery(p) ==
  \/ Truthy(Get(p, "q"))
  \/ Truthy(Get(p, "title"))
  \/ Truthy(Get(p, "author"))
  \/ Truthy(Get(p, "subject"))
  \/ Truthy(Get(p, "isbn"))

\* an updater that merges and never resets the page: { ...p, ...next }
updateMergeOnly(p, next) == Spread(p, next)

\* an updater that takes the page with || instead of ??
updateTruthyPage(p, next) ==
  Spread(Spread(p, next), [key \in {"page"} |-> OrElse(Get(next, "page"), Num(1))])

\* an updater without the default: { ...p, ...next, page: next.page }
updateNoDefault(p, next) == Spread(Spread(p, next), [key \in {"page"} |-> Get(next, "page")])

\* the updater of update(next): { ...p, ...next, page: next.page ?? 1 }
update(p, next) ==
  Spread(Spread(p, next), [key \in {"page"} |-> Nullish(Get(next, "page"), Num(1))])

\* a cleanup that clears no timer
ClearNothing(rs, c) == rs

\* clearTimeout(id), the cleanup the previous run of the effect returned
\* (c is Null when that run returned none); a timer that fired is left alone.
\* A callback that can no longer run keeps no url.
ClearTimeout(rs, c) ==
  IF c # Null /\ rs[c[1]].phase = "timer"
  THEN [rs EXCEPT ![c[1]].phase = "cleared", ![c[1]].url = ""]
  ELSE rs

\* a hook that never aborts the request it replaces
AbortNothing(rs, ref) == rs

\* if (abortRef.current) abortRef.current.abort()
AbortCurrent(rs, ref) ==
  IF ref # Null THEN [rs EXCEPT ![ref[1]].aborted = TRUE] ELSE rs

\* a hook that stores only its first controller
SetAbortRefOnce(ref, id) == IF ref = Null THEN Some(id) ELSE ref

\* abortRef.current = controller
SetAbortRef(ref, id) == Some(id)

\* history: the requests still pending when a newer request is created
MarkSuperseded(rs) ==
  [r \in DOMAIN rs |->
     IF rs[r].phase \in {"timer", "fetching", "reading"} THEN [rs[r] EXCEPT !.superseded = TRUE]
     ELSE rs[r]]

NewRequest(u) ==
  [url |-> u, phase |-> "timer", aborted |-> FALSE, superseded |-> FALSE, applied |-> FALSE]

\* one run of the effect for params np and their url nurl: c is the hook state
\* [status, data, error, abortRef, cleanup, reqs, url]
Effect(c, np, nurl) ==
  LET cleared == ClearTimeout(c.reqs, c.cleanup)
  IN IF ~HasQuery(np)
     THEN [c EXCEPT !.status = "idle", !.data = Null, !.error = Null, !.url = nurl,
                    !.cleanup = Null, !.reqs = cleared]
     ELSE [c EXCEPT !.status = "loading", !.error = Null, !.url = nurl,
                    !.abortRef = SetAbortRef(c.abortRef, Len(c.reqs) + 1),
                    !.cleanup = Some(Len(c.reqs) + 1),
                    !.reqs = Append(AbortCurrent(MarkSuperseded(cleared), c.abortRef),
                                    NewRequest(nurl))]

\* the render after setParams(np): the effect runs iff url (its only
\* dependency) differs from the url of the previous render
Render(c, np, nurl) == IF nurl # c.url THEN Effect(c, np, nurl) ELSE c

\* a catch that reports every rejection, the abort included
CatchAll(e, s) ==
  [s EXCEPT !.error = Some(ToStr(OrElse(Str(e.message), Str("Network error")))),
            !.status = "error"]

\* a catch that reports nothing
CatchSilent(e, s) == s

\* catch (e): s is [status, data, error]
Catch(e, s) ==
  IF e.name = "AbortError" THEN s
  ELSE [s EXCEPT !.error = Some(ToStr(OrElse(Str(e.message), Str("Network error")))),
                 !.status = "error"]

AbortError == [name |-> "AbortError", message |-> "The user aborted a request."]

\* if (!res.ok) throw new Error(`Request failed: ${res.status}`)
ResOk(code) == code \in 200..299
HttpError(code) == [name |-> "Error", message |-> "Request failed: " \o ToStr(Num(code))]

\* !json.docs?.length
NoDocs(o) == ~("docs" \in DOMAIN o /\ Len(o.docs) # 0)

\* a classification that stores the body of an empty result as it came
ClassifyRaw(json, s) ==
  IF json = Null
  THEN Catch([name |-> "TypeError", message |-> "Cannot read properties of null (reading 'docs')"], s)
  ELSE IF NoDocs(json[1]) THEN [s EXCEPT !.data = json, !.status = "empty"]
       ELSE [s EXCEPT !.data = json, !.status = "success"]

\* the statements after await res.json(): s is [status, data, error]
Classify(json, s) ==
  IF json = Null
  THEN Catch([name |-> "TypeError", message |-> "Cannot read properties of null (reading 'docs')"], s)
  ELSE IF NoDocs(json[1])
       THEN [s EXCEPT !.data = Some([key \in DOMAIN json[1] \cup {"docs"} |->
                                       IF key = "docs" THEN <<>> ELSE json[1][key]]),
                      !.status = "empty"]
       ELSE [s EXCEPT !.data = json, !.status = "success"]

(***************************************************************************)
(* Results: pagination                                                     *)
(***************************************************************************)
LIMIT == 24
ResultCap == 1000
Min(a, b) == IF a < b THEN a ELSE b
Max(a, b) == IF a > b THEN a ELSE b
\* data?.numFound || 0
Total(d) == IF d # Null /\ "numFound" \in DOMAIN d[1] THEN d[1].numFound ELSE 0
\* page={params.page || 1}
ShownPage(p) == OrElse(Get(p, "page"), Num(1)).n
PrevDisabled(p) == ShownPage(p) <= 1
NextDisabled(p, d) == ShownPage(p) * LIMIT >= Min(Total(d), ResultCap)
\* Results returns before the pagination unless status is success
PaginationShown(st) == st \notin {"idle", "loading", "error", "empty"}


(***************************************************************************)
(* State                                                                   *)
(***************************************************************************)
VARIABLES
  params,    \* useState: the request parameters
  status,    \* useState: idle | loading | success | error | empty
  data,      \* useState: Null or the result page
  error,     \* useState: Null or the message
  abortRef,  \* useRef: Null or the request whose AbortController it holds
  cleanup,   \* Null or the request whose timer the effect's cleanup clears
  reqs,      \* the timer callbacks created so far, in creation order
  url,       \* useMemo: buildUrl(params)
  last       \* history: the operation that made the last step

vars == <<params, status, data, error, abortRef, cleanup, reqs, url, last>>

Hook == [status |-> status, data |-> data, error |-> error,
         abortRef |-> abortRef, cleanup |-> cleanup, reqs |-> reqs, url |-> url]

SetHook(c) ==
  /\ status' = c.status
  /\ data' = c.data
  /\ error' = c.error
  /\ abortRef' = c.abortRef
  /\ cleanup' = c.cleanup
  /\ reqs' = c.reqs
  /\ url' = c.url

\* next is the partial given to update (none for a request's step), prePage
\* the page parameter before the step
Op(name, next) == [op |-> name, next |-> next, prePage |-> Get(params, "page")]

\* the state after the first render: the effect has run with no query
Init ==
  /\ params = InitialParams
  /\ status = "idle"
  /\ data = Null
  /\ error = Null
  /\ abortRef = Null
  /\ cleanup = Null
  /\ reqs = <<>>
  /\ url = buildUrl(InitialParams)
  /\ last = [op |-> "mount", next |-> <<>>, prePage |-> Get(InitialParams, "page")]

\* update(next) followed by the render and the effect
DoUpdate(name, next) ==
  LET np == update(params, next)
      c == Render(Hook, np, buildUrl(np))
  IN /\ Len(c.reqs) <= MaxReq
     /\ params' = np
     /\ SetHook(c)
     /\ last' = Op(name, next)

\* the partial onSearch passes to update for the filters f
SearchPartial(f) ==
  [q |-> Str(Trim(f.q)),
   title |-> Str(Trim(f.title)),
   author |-> Str(Trim(f.author)),
   subject |-> Str(Trim(f.subject)),
   language |-> IF f.language # "" THEN Str(f.language) ELSE Undef,
   yearStart |-> IF f.yearStart # "" THEN Num(ToNumber(f.yearStart)) ELSE Undef,
   yearEnd |-> IF f.yearEnd # "" THEN Num(ToNumber(f.yearEnd)) ELSE Undef,
   sort |-> Str(f.sort)]

\* the partials update is called with directly: a page, nothing, an explicitly
\* undefined page, and what a submitted form passes
Partials ==
  { [page |-> Num(n)] : n \in 0..MaxPage }
  \cup { <<>>, [q |-> Str(""), page |-> Undef], SearchPartial([NoFilters EXCEPT !.q = "a"]) }

\* the Search button or Enter
onSearch(f) == DoUpdate("onSearch", SearchPartial(f))

\* setPage of App applied to the updater fn of a pagination button
setPage(name, n) == DoUpdate(name, [page |-> Num(n)])

\* the Prev button: setPage((p) => Math.max(1, p - 1))
ClickPrev ==
  /\ PaginationShown(status)
  /\ ~PrevDisabled(params)
  /\ setPage("prev", Max(1, ShownPage(params) - 1))

\* the Next button: setPage((p) => p + 1)
ClickNext ==
  /\ PaginationShown(status)
  /\ ~NextDisabled(params, data)
  /\ setPage("next", ShownPage(params) + 1)

\* a direct call of the update the hook returns
UpdateCall(next) == DoUpdate("update", next)

\* the outcome s = [status, data, error] of request r's callback is stored
Settle(r, s, name) ==
  /\ status' = s.status
  /\ data' = s.data
  /\ error' = s.error
  /\ reqs' = [reqs EXCEPT ![r].phase = "done", ![r].url = "",
                          ![r].applied = (s # [status |-> status, data |-> data, error |-> error])]
  /\ last' = Op(name, <<>>)
  /\ UNCHANGED <<params, abortRef, cleanup, url>>

Cur == [status |-> status, data |-> data, error |-> error]

\* the debounce timer of r fires: fetch(url, { signal }) is called
TimerFires(r) ==
  /\ reqs[r].phase = "timer"
  /\ reqs' = [reqs EXCEPT ![r].phase = "fetching"]
  /\ last' = Op("timer", <<>>)
  /\ UNCHANGED <<params, status, data, error, abortRef, cleanup, url>>

\* await fetch resolves with a response of status code
FetchResolves(r, code) ==
  /\ reqs[r].phase = "fetching"
  /\ ~reqs[r].aborted
  /\ IF ResOk(code)
     THEN /\ reqs' = [reqs EXCEPT ![r].phase = "reading"]
          /\ last' = Op("response", <<>>)
          /\ UNCHANGED <<params, status, data, error, abortRef, cleanup, url>>
     ELSE Settle(r, Catch(HttpError(code), Cur), "httpError")

\* await fetch rejects: the network failed
FetchRejects(r, msg) ==
  /\ reqs[r].phase = "fetching"
  /\ ~reqs[r].aborted
  /\ Settle(r, Catch([name |-> "TypeError", message |-> msg], Cur), "networkError")

\* await res.json() resolves with the parsed body
JsonResolves(r, json) ==
  /\ reqs[r].phase = "reading"
  /\ ~reqs[r].aborted
  /\ Settle(r, Classify(json, Cur), "body")

\* await res.json() rejects: the body is not JSON
JsonRejects(r) ==
  /\ reqs[r].phase = "reading"
  /\ ~reqs[r].aborted
  /\ Settle(r, Catch([name |-> "SyntaxError", message |-> "Unexpected end of JSON input"], Cur),
            "parseError")

\* the pending await of an aborted request rejects with an AbortError
AbortRejects(r) ==
  /\ reqs[r].phase \in {"fetching", "reading"}
  /\ reqs[r].aborted
  /\ Settle(r, Catch(AbortError, Cur), "aborted")

RequestStep ==
  \E r \in DOMAIN reqs :
    \/ TimerFires(r)
    \/ \E code \in HttpCodes : FetchResolves(r, code)
    \/ \E msg \in NetworkMessages : FetchRejects(r, msg)
    \/ \E json \in Bodies : JsonResolves(r, json)
    \/ JsonRejects(r)
    \/ AbortRejects(r)

\* the application: the user drives the hook through the form and the buttons
Next ==
  \/ \E f \in FilterSets : onSearch(f)
  \/ ClickPrev
  \/ ClickNext
  \/ RequestStep

Spec == Init /\ [][Next]_vars

\* the hook on its own: update is called with any partial
HookNext ==
  \/ \E next \in Partials : UpdateCall(next)
  \/ RequestStep

HookSpec == Init /\ [][HookNext]_vars

\* the hook paging at the cap: a search, update({ page: n }) around the last
\* page the cap allows, the buttons, and responses that report 1000 matches
LastPage == ResultCap \div LIMIT + 1
CapPartials ==
  { SearchPartial([NoFilters EXCEPT !.q = "a"]) }
  \cup { [page |-> Num(n)] : n \in {LastPage - 1, LastPage, LastPage + 1} }
FullBody == Some([numFound |-> ResultCap, docs |-> <<"/works/OL1W">>])

CapNext ==
  \/ \E next \in CapPartials : UpdateCall(next)
  \/ ClickPrev
  \/ ClickNext
  \/ \E r \in DOMAIN reqs :
       \/ TimerFires(r)
       \/ FetchResolves(r, 200)
       \/ JsonResolves(r, FullBody)
       \/ AbortRejects(r)

CapSpec == Init /\ [][CapNext]_vars

\* the form submitted empty, with a free-text query that is written as a
\* clause, and with the language filter that builds the same clause
ClauseFilters ==
  { NoFilters,
    [NoFilters EXCEPT !.q = "language:en"],
    [NoFilters EXCEPT !.language = "en"] }

ClauseNext ==
  \/ \E f \in ClauseFilters : onSearch(f)
  \/ RequestStep

ClauseSpec == Init /\ [][ClauseNext]_vars

(***************************************************************************)
(* The query builder on its own: buildUrl applied to one parameter object  *)
(***************************************************************************)
\* longest text given as a filter value
MaxLen == 3
Alphabet == {"a", " ", "\"", "&", "\\"}

RECURSIVE Texts(_)
Texts(n) == IF n = 0 THEN {""} ELSE Texts(n - 1) \cup {t \o c : t \in Texts(n - 1), c \in Alphabet}

\* an object that owns key with one of vals, or does not own it
Opt(key, vals) == {<<>>} \cup {[k \in {key} |-> v] : v \in vals}

\* parameter objects with one text filter
TextInputs == {[title |-> Str(t)] : t \in Texts(MaxLen)}

\* parameter objects by the fields they own; 0 is what Number("0") gives for
\* a year typed as 0
FieldInputs ==
  { Spread(t, Spread(a, Spread(sb, Spread(lg, Spread(ys, Spread(ye, Spread(fq, Spread(so,
                                                                                Spread(pg, lm))))))))) :
      t \in Opt("title", {Str("t")}), a \in Opt("author", {Str("x y")}),
      sb \in Opt("subject", {Str("s")}), lg \in Opt("language", {Undef, Str("en")}),
      ys \in Opt("yearStart", {Num(0), Num(1990)}), ye \in Opt("yearEnd", {Num(2000)}),
      fq \in Opt("q", {Str("a")}), so \in Opt("sort", {Str("relevance"), Str("new")}),
      pg \in Opt("page", {Num(2)}), lm \in Opt("limit", {Num(DefaultLimit)}) }

BuildInputs == TextInputs \cup FieldInputs

BuildInit ==
  /\ params \in BuildInputs
  /\ url = ""
  /\ status = "idle"
  /\ data = Null
  /\ error = Null
  /\ abortRef = Null
  /\ cleanup = Null
  /\ reqs = <<>>
  /\ last = [op |-> "input", next |-> <<>>, prePage |-> Undef]

\* url = buildUrl(params)
Build ==
  /\ last.op = "input"
  /\ url' = buildUrl(params)
  /\ last' = [last EXCEPT !.op = "buildUrl"]
  /\ UNCHANGED <<params, status, data, error, abortRef, cleanup, reqs>>

BuildSpec == BuildInit /\ [][Build]_vars
(***************************************************************************)
(* Properties                                                              *)
(***************************************************************************)
ResultStatus == {"success", "empty", "error"}
InFlight(r) == reqs[r].phase \in {"fetching", "reading"}

\* C1: a request that was still pending (debouncing or in flight) when a
\* later request was created by a url-changing update with a query never has
\* its response or failure applied to status, data or error; whenever status
\* is success, empty or error, it is the newest request that was applied.
C1_StaleNeverApplied ==
  /\ \A r \in DOMAIN reqs : reqs[r].superseded => ~reqs[r].applied
  /\ status \in ResultStatus => (reqs # <<>> /\ reqs[Len(reqs)].applied)

\* request 1 was in flight when request 2 superseded it, its await has
\* returned since, and the page shown is the one request 2 fetched
C1_Witness ==
  /\ Len(reqs) >= 2
  /\ reqs[1].superseded /\ reqs[1].aborted /\ reqs[1].phase = "done"
  /\ reqs[2].applied
  /\ status = "success"

\* C2: while no query-bearing field is set, status is idle and data and
\* error are null, also after the response to an earlier request arrives.
C2_IdleWhileNoQuery ==
  ~HasQuery(params) => (status = "idle" /\ data = Null /\ error = Null)

\* C3: every request but the newest that is still in flight has had its
\* abort signal sent, so at most one request that is not cancelled is live.
C3_OneLiveRequest ==
  /\ \A r \in DOMAIN reqs : (r < Len(reqs) /\ InFlight(r)) => reqs[r].aborted
  /\ Cardinality({r \in DOMAIN reqs : InFlight(r) /\ ~reqs[r].aborted}) <= 1

\* the fetch of an older request is still pending, aborted, while the fetch
\* of the newest request is live
C3_Witness ==
  /\ Len(reqs) >= 2
  /\ \E r \in 1..(Len(reqs) - 1) : InFlight(r) /\ reqs[r].aborted
  /\ InFlight(Len(reqs)) /\ ~reqs[Len(reqs)].aborted

\* C4: when the await of an aborted request rejects, status, data and error
\* stay what they were: the abort sets no error and does not move to error.
C4_AbortIsDropped ==
  [][\A r \in DOMAIN reqs :
       (reqs[r].aborted /\ reqs[r].phase # "done" /\ reqs'[r].phase = "done")
         => (status' = status /\ error' = error /\ data' = data)]_vars

\* the rejection of an aborted request has just been handled while the
\* request that superseded it is loading
C4_Witness ==
  /\ last.op = "aborted"
  /\ status = "loading"
  /\ error = Null
  /\ \E r \in DOMAIN reqs : reqs[r].aborted /\ reqs[r].superseded /\ reqs[r].phase = "done"
\* C5: submitting the form while status is error, with a query, moves status
\* to loading and creates a new request, also when the filters are unchanged.
C5_ResubmitRetries ==
  [][(status = "error" /\ last'.op = "onSearch" /\ HasQuery(params'))
       => (status' = "loading" /\ Len(reqs') = Len(reqs) + 1)]_vars

\* C6: after update(next) with a partial that specifies no page (onSearch
\* never does), the page parameter is 1 whatever it was before.
C6_PageResetWithoutPage ==
  [][(last'.op \in {"update", "onSearch"} /\ Get(last'.next, "page") = Undef)
       => Get(params', "page") = Num(1)]_vars

\* update was called without a page while the page was not 1, and it is 1 now
C6_Witness ==
  /\ last.op = "update"
  /\ Get(last.next, "page") = Undef
  /\ last.prePage \notin {Num(1), Undef}
  /\ Get(params, "page") = Num(1)

\* C7: update({ page: n }) sets the page parameter to n and leaves every
\* other parameter as it was.
C7_PageKeptVerbatim ==
  [][(last'.op \in {"update", "prev", "next"} /\ DOMAIN last'.next = {"page"}
        /\ last'.next.page.k = "num")
       => /\ Get(params', "page") = last'.next.page
          /\ DOMAIN params' = DOMAIN params \cup {"page"}
          /\ \A key \in DOMAIN params \ {"page"} : params'[key] = params[key]]_vars

\* update({ page: 0 }) was called on parameters that carry a query, and the
\* page parameter is 0 now
C7_Witness ==
  /\ last.op = "update"
  /\ last.next = [page |-> Num(0)]
  /\ last.prePage # Num(0)
  /\ Get(params, "page") = Num(0)
  /\ HasQuery(params)

\* a parsed body that is an object whose docs array is empty
ZeroRecords(json) == json # Null /\ "docs" \in DOMAIN json[1] /\ json[1].docs = <<>>
\* a parsed body that is an object without docs
MissingDocs(json) == json # Null /\ "docs" \notin DOMAIN json[1]

\* C8: a parsed response with zero result records moves status from loading
\* to empty, and data becomes a page whose docs list is empty, not null.
C8_ZeroRecordsIsEmpty ==
  [][\A r \in DOMAIN reqs : \A json \in Bodies :
       (ZeroRecords(json) /\ JsonResolves(r, json))
         => /\ status = "loading"
            /\ status' = "empty"
            /\ data' # Null
            /\ "docs" \in DOMAIN data'[1]
            /\ data'[1].docs = <<>>]_vars

\* C9: a parsed body that lacks the docs array moves status to error.
C9_MissingDocsIsError ==
  [][\A r \in DOMAIN reqs : \A json \in Bodies :
       (MissingDocs(json) /\ JsonResolves(r, json)) => status' = "error"]_vars

\* C10: a request that is not cancelled and ends with a non-2xx status or a
\* network error moves status from loading to error with a non-empty message.
C10_FailureIsError ==
  [][\A r \in DOMAIN reqs :
       (\/ \E code \in HttpCodes : ~ResOk(code) /\ FetchResolves(r, code)
        \/ \E msg \in NetworkMessages : FetchRejects(r, msg))
         => /\ status = "loading"
            /\ status' = "error"
            /\ error' # Null
            /\ error'[1] # ""]_vars

\* C11: no request is issued for a page beyond floor(1000/24)+1 = 42, and
\* with 1000 matches the Next button is disabled on that page.
C11_NoRequestBeyondCap ==
  [][\A r \in DOMAIN reqs :
       (reqs[r].phase = "timer" /\ reqs'[r].phase = "fetching" /\ reqs[r].url = buildUrl(params))
         => /\ ShownPage(params) <= LastPage
            /\ ShownPage(params) = LastPage => NextDisabled(params, FullBody)]_vars

\* the url has a q parameter (set first when there is one)
HasQParam(u) == SubSeq(u, Len(BASE) + 2, Len(BASE) + 3) = "q="

\* C12: submitting the form with every field empty gives a url without q,
\* creates no request and leaves status idle; no fetch is ever issued while
\* every query-bearing field is empty.
C12_NoRequestWithoutQuery ==
  [][/\ (last'.op = "onSearch" /\ last'.next = SearchPartial(NoFilters))
          => (~HasQParam(url') /\ Len(reqs') = Len(reqs) /\ status' = "idle")
     /\ \A r \in DOMAIN reqs :
          (reqs[r].phase = "timer" /\ reqs'[r].phase = "fetching") => HasQuery(params)]_vars

\* a field is present: it is given and is not the empty text
Present(v) == v.k # "undef" /\ v # Str("")

\* the clauses the fields present in p call for, in the fixed order
ExpectedClauses(p) ==
  (IF Present(Get(p, "title")) THEN <<"title:" \o esc(Get(p, "title"))>> ELSE <<>>)
  \o (IF Present(Get(p, "author")) THEN <<"author:" \o esc(Get(p, "author"))>> ELSE <<>>)
  \o (IF Present(Get(p, "subject")) THEN <<"subject:" \o esc(Get(p, "subject"))>> ELSE <<>>)
  \o (IF Present(Get(p, "language")) THEN <<"language:" \o encodeURIComponent(Get(p, "language").s)>> ELSE <<>>)
  \o (IF Present(Get(p, "yearStart")) \/ Present(Get(p, "yearEnd"))
      THEN <<"first_publish_year:["
             \o (IF Present(Get(p, "yearStart")) THEN ToStr(Get(p, "yearStart")) ELSE "*")
             \o " TO "
             \o (IF Present(Get(p, "yearEnd")) THEN ToStr(Get(p, "yearEnd")) ELSE "*")
             \o "]">>
      ELSE <<>>)
  \o (IF Present(Get(p, "q")) THEN <<Get(p, "q").s>> ELSE <<>>)

ExpectedUrl(p) ==
  BASE \o "?"
  \o (IF ExpectedClauses(p) # <<>> THEN "q=" \o FormEncode(Join(ExpectedClauses(p), " ")) \o "&"
      ELSE "")
  \o "page=" \o (IF Present(Get(p, "page")) THEN ToStr(Get(p, "page")) ELSE "1")
  \o "&limit=" \o (IF Present(Get(p, "limit")) THEN ToStr(Get(p, "limit")) ELSE "24")
  \o (IF Present(Get(p, "sort")) /\ Get(p, "sort") # Str("relevance")
      THEN "&sort=" \o Get(p, "sort").s ELSE "")
  \o "&" \o FieldsEntry

\* C13: the url buildUrl gives has a clause for exactly the fields present,
\* in the order title, author, subject, language, year range, free text, a
\* year range iff a bound is present with * for a missing bound, then page
\* (1 when unspecified), limit (24 when unspecified), sort unless it is
\* absent or relevance, and the fixed fields list.
C13_ClausesForPresentFields ==
  last.op = "buildUrl" => url = ExpectedUrl(params)

\* the characters PctCode has a code for
PctChars == {CharAt(" \"%&+,:=[\\]*-._/?!", i) : i \in 1..18}

\* decodeURIComponent: every %XX back to its character
RECURSIVE PctDecode(_)
PctDecode(s) ==
  IF s = "" THEN ""
  ELSE IF CharAt(s, 1) = "%" /\ Len(s) >= 3
            /\ \E c \in PctChars : PctCode(c) = SubSeq(s, 1, 3)
       THEN (CHOOSE c \in PctChars : PctCode(c) = SubSeq(s, 1, 3)) \o PctDecode(SubSeq(s, 4, Len(s)))
       ELSE CharAt(s, 1) \o PctDecode(SubSeq(s, 2, Len(s)))

\* URLSearchParams.get: + back to a space, then every %XX
RECURSIVE PlusToSpace(_)
PlusToSpace(s) ==
  IF s = "" THEN ""
  ELSE (IF CharAt(s, 1) = "+" THEN " " ELSE CharAt(s, 1)) \o PlusToSpace(SubSeq(s, 2, Len(s)))

FormDecode(s) == PctDecode(PlusToSpace(s))

\* s up to the first c
RECURSIVE UpTo(_, _)
UpTo(s, c) ==
  IF s = "" \/ CharAt(s, 1) = c THEN "" ELSE CharAt(s, 1) \o UpTo(SubSeq(s, 2, Len(s)), c)

\* new URL(u).searchParams.get("q") of a url that has the q parameter
QParam(u) == FormDecode(UpTo(SubSeq(u, Len(BASE) + 4, Len(u)), "&"))

\* the inverse of replaceAll('"', '\\"'): drop the backslash before a quote
RECURSIVE UnescapeQuotes(_)
UnescapeQuotes(s) ==
  IF s = "" THEN ""
  ELSE IF Len(s) >= 2 /\ SubSeq(s, 1, 2) = "\\\""
       THEN "\"" \o UnescapeQuotes(SubSeq(s, 3, Len(s)))
       ELSE CharAt(s, 1) \o UnescapeQuotes(SubSeq(s, 2, Len(s)))

EveryQuoteEscaped(s) ==
  \A i \in 1..Len(s) : CharAt(s, i) = "\"" => (i > 1 /\ CharAt(s, i - 1) = "\\")

\* v is x wrapped in double quotes, the quotes of x backslash-escaped
QuotedFormOf(v, x) ==
  /\ Len(v) >= 2
  /\ CharAt(v, 1) = "\""
  /\ CharAt(v, Len(v)) = "\""
  /\ EveryQuoteEscaped(SubSeq(v, 2, Len(v) - 1))
  /\ UnescapeQuotes(SubSeq(v, 2, Len(v) - 1)) = x

\* v is x percent-encoded, without quotes
PercentFormOf(v, x) ==
  /\ \A i \in 1..Len(v) : CharAt(v, i) \in UriUnreserved \cup {"%"}
  /\ PctDecode(v) = x

ClauseForm(v, x) == IF Includes(x, " ") THEN QuotedFormOf(v, x) ELSE PercentFormOf(v, x)

\* a clause value back to its text
ClauseDecode(v) ==
  IF Len(v) >= 2 /\ CharAt(v, 1) = "\"" /\ CharAt(v, Len(v)) = "\""
  THEN UnescapeQuotes(SubSeq(v, 2, Len(v) - 1)) ELSE PctDecode(v)

\* buildUrl was applied to an object whose one field is a non-empty title
TitleBuilt == last.op = "buildUrl" /\ DOMAIN params = {"title"} /\ params.title.s # ""

\* the value of the title clause in the q parameter of url
TitleClause == LET q == QParam(url) IN SubSeq(q, Len("title:") + 1, Len(q))

PendingTimers(rs) == {r \in DOMAIN rs : rs[r].phase = "timer"}

\* the url changes while a timer is pending: a change within the debounce
ChangeWithinDebounce == url' # url /\ PendingTimers(reqs) # {}

\* the newest request of rs is the one pending timer, armed for u
OneTimerFor(rs, u) == rs # <<>> /\ PendingTimers(rs) = {Len(rs)} /\ rs[Len(rs)].url = u

\* C15 as stated: every url change within the debounce clears the pending
\* timer and leaves exactly one timer, armed for the new url, so the one
\* request of a burst is for the url of its last change; at most one timer is
\* pending at any time.
C15_LastChangeIsRequested ==
  /\ [](Cardinality(PendingTimers(reqs)) <= 1)
  /\ [][ChangeWithinDebounce
           => /\ \A r \in PendingTimers(reqs) : reqs'[r].phase = "cleared"
              /\ OneTimerFor(reqs', url')]_vars

\* C15 amended: a url change within the debounce clears the pending timer;
\* it arms one timer for the new url if the new parameters have a query and
\* none if they have not; a timer that fires fetches the current url; at
\* most one timer is pending at any time, the newest, for the current url.
C15_OneTimerForLastQuery ==
  /\ [](/\ Cardinality(PendingTimers(reqs)) <= 1
        /\ PendingTimers(reqs) # {} => OneTimerFor(reqs, url))
  /\ [][ChangeWithinDebounce
           => /\ \A r \in PendingTimers(reqs) : reqs'[r].phase = "cleared"
              /\ IF HasQuery(params')
                 THEN Len(reqs') = Len(reqs) + 1 /\ OneTimerFor(reqs', url')
                 ELSE Len(reqs') = Len(reqs) /\ PendingTimers(reqs') = {}]_vars
  /\ [][\A r \in DOMAIN reqs :
          (reqs[r].phase = "timer" /\ reqs'[r].phase = "fetching") => reqs[r].url = url]_vars

\* three url changes within the debounce, then the one fetch, for the last url
C15_Witness ==
  /\ Len(reqs) = 3
  /\ reqs[1].phase = "cleared"
  /\ reqs[2].phase = "cleared"
  /\ reqs[3].phase = "fetching"
  /\ reqs[3].url = url
  /\ last.op = "timer"

\* C16: after any sequence of Search, Next and Prev the page parameter is
\* an integer of at least 1, and Prev, from a page above 1, gives the page
\* before it and never a page below 1.
C16_PageAtLeastOne ==
  /\ Get(params, "page").k = "num"
  /\ Get(params, "page").n \in Nat \ {0}
  /\ last.op = "prev" => Get(params, "page").n = Max(1, last.prePage.n - 1)

\* Prev was clicked on page 2 and the page is 1
C16_Witness ==
  /\ last.op = "prev"
  /\ last.prePage = Num(2)
  /\ Get(params, "page") = Num(1)

\* C18: error is non-null exactly when status is error; idle has no data;
\* success has data with at least one record; empty has data whose docs is
\* the empty list.
C18_StatusDataErrorAgree ==
  /\ error # Null <=> status = "error"
  /\ status = "idle" => data = Null
  /\ status = "success" => (data # Null /\ "docs" \in DOMAIN data[1] /\ Len(data[1].docs) >= 1)
  /\ status = "empty" => (data # Null /\ "docs" \in DOMAIN data[1] /\ data[1].docs = <<>>)

\* a body without docs was received and is stored, normalised, as empty
C18_Witness ==
  /\ last.op = "body"
  /\ status = "empty"
  /\ error = Null
  /\ data = Some([numFound |-> 3, docs |-> <<>>])

(***************************************************************************)
(* The application with a timer that fires and a network that answers      *)
(***************************************************************************)
\* the steps of the r-th timer callback
RequestOf(r) ==
  /\ r \in DOMAIN reqs
  /\ \/ TimerFires(r)
     \/ \E code \in HttpCodes : FetchResolves(r, code)
     \/ \E msg \in NetworkMessages : FetchRejects(r, msg)
     \/ \E json \in Bodies : JsonResolves(r, json)
     \/ JsonRejects(r)
     \/ AbortRejects(r)

\* every armed timer fires unless it is cleared, and every pending await of
\* fetch or res.json() settles
LiveFilters ==
  { NoFilters, [NoFilters EXCEPT !.q = "a"], [NoFilters EXCEPT !.title = "the hobbit "] }

LiveNext ==
  \/ \E f \in LiveFilters : onSearch(f)
  \/ ClickPrev
  \/ ClickNext
  \/ \E r \in 1..(MaxReq + 1) : RequestOf(r)

FairSpec == Init /\ [][LiveNext]_vars /\ \A r \in 1..(MaxReq + 1) : WF_vars(RequestOf(r))

\* a request whose outcome will be stored: its timer is pending, or its fetch
\* or body is awaited and it is not aborted
Live(r) == reqs[r].phase = "timer" \/ (InFlight(r) /\ ~reqs[r].aborted)

\* C17: while status is loading a timer is pending or a request that is not
\* aborted is in flight, and status does not stay loading forever.
C17_LoadingEnds ==
  /\ [](status = "loading" => \E r \in DOMAIN reqs : Live(r))
  /\ (status = "loading") ~> (status # "loading")

\* the request that made status loading was answered with a failure, and
\* loading ended with it
C17_Witness ==
  /\ last.op = "networkError"
  /\ status = "error"
  /\ reqs[Len(reqs)].phase = "done"
  /\ reqs[Len(reqs)].applied
  /\ \A r \in DOMAIN reqs : ~Live(r)
====
